---- MODULE Spec2Model ----
(***************************************************************************)
(* Notification and rating triggers of the ALAN restaurant platform.       *)
(*                                                                         *)
(* The stores are the PostgreSQL tables the triggers read and write:       *)
(* blog_posts, blog_comments, profiles, customer_notifications,            *)
(* blog_comment_notifications, orders, restaurant_ratings and the rating   *)
(* column of restaurants.  One action is one SQL statement together with   *)
(* every row trigger it fires; a statement whose trigger raises is rolled  *)
(* back as a whole.  The browser side is the notification hook of a        *)
(* mounted bell: one action is one render with its effects, one response   *)
(* of the store, one realtime delivery or one call of a mark-as-read       *)
(* function.                                                               *)
(*                                                                         *)
(* Numbers: a rating numeric(2,1) is kept in tenths (3.0 is 30), a         *)
(* numeric(3,2) in hundredths.  A nullable id is NULL (0); a nullable text *)
(* is None (<<>>) or Some(t) (<<t>>); a text is a sequence of characters.  *)
(***************************************************************************)
EXTENDS Integers, Sequences, FiniteSets, TLC

VARIABLES
    posts,         \* blog_posts: ids of the rows
    comments,      \* blog_comments: set of rows
    profiles,      \* profiles: user id -> NoProfile, or the optional full_name
    custNotifs,    \* customer_notifications: rows in insertion order
    ownerNotifs,   \* blog_comment_notifications: rows in insertion order
    orders,        \* orders: set of rows
    ratings,       \* restaurant_ratings: set of rows
    restRating,    \* restaurants.rating, by restaurant id, in tenths
    txns,          \* open transactions on restaurant_ratings (read committed)
    delBase,       \* per restaurant: rating before the current run of deletes
    hook,          \* the mounted notification hook: its React state, its
                   \* realtime channels and its requests in flight
    lastOp         \* the last statement and what its triggers created

vars == <<posts, comments, profiles, custNotifs, ownerNotifs, orders, ratings,
          restRating, txns, delBase, hook, lastOp>>

----------------------------------------------------------------------------
(* Bounds of the model *)

MaxComments == 2
MaxOrders == 1
MaxRatings == 2
MaxOrderRatings == 1
MaxPrompts == 2
MaxBulkRatings == 11
MaxTxnRatings == 2
MaxMoving == 1
MaxOwnerNotifs == 2
\* options.limit of the hook, its requests in flight, and the rows of
\* customer_notifications while a hook is watched
ClientLimit == 2
MaxFetches == 1
MaxClientRows == 3

----------------------------------------------------------------------------
(* Values *)

NULL == 0

None == << >>

Some(t) == << t >>

Users == {1, 2}

Restaurants == {1, 2}

Posts == {1, 2}

\* blog_posts.restaurant_id: not null, one restaurant per post
PostRestaurant == [p \in Posts |-> p]

\* restaurants.name of the seeded restaurants
RestaurantName == [r \in Restaurants |-> IF r = 1 THEN "Yangon Bistro" ELSE "The Coffee House"]

\* blog_posts.title: not null
PostTitle == [p \in Posts |-> IF p = 1 THEN "Opening week" ELSE "New menu"]

\* auth.users.email, the part before '@'
EmailLocalPart == [u \in Users |-> IF u = 1 THEN "alice" ELSE "bob"]

NoProfile == "no profiles row"

\* profiles.full_name of the row a user gets: nullable text
ProfileFullName == [u \in Users |-> IF u = 1 THEN Some("Alice A.") ELSE None]

PreviewLimit == 100

PreviewKeep == 97

\* The characters a text is written with
Alphabet == <<"a", "b", "c", "d", "e", "f", "g">>

\* A text of n characters in which neighbouring characters differ
Rep(n) == [i \in 1..n |-> Alphabet[(i % Len(Alphabet)) + 1]]

ContentLens == {3, PreviewLimit, PreviewLimit + 1}

Contents == {Rep(n) : n \in ContentLens}

OrderStatuses == {"paid", "preparing", "ready", "served", "completed", "cancelled"}

\* restaurants.rating as seeded by the administrator (4.8)
AdminRating == 48

RatingValues == {30, 50}

RatingPromptTitle == "Your order is completed"

RatingPromptMessage == "Your order is completed and it will be served in a short while. Please give us rating for our service."

----------------------------------------------------------------------------
(* Text helpers *)

\* left(s, n)
Left(s, n) == IF Len(s) <= n THEN s ELSE SubSeq(s, 1, n)

Ellipsis == <<".", ".", ".">>

\* Variant: a long text keeps its first 100 characters before the ellipsis
PreviewKeepLimit(c) ==
    IF Len(c) > PreviewLimit THEN Left(c, PreviewLimit) \o Ellipsis ELSE c

\* CASE WHEN length(c) > 100 THEN left(c, 97) || '...' ELSE c END
Preview(c) == IF Len(c) > PreviewLimit THEN Left(c, PreviewKeep) \o Ellipsis ELSE c

\* COALESCE(t, d) on an optional text
Coalesce(t, d) == IF t = None THEN d ELSE t[1]

\* lastOp: the statement, its target, how it ended, the sizes of the two
\* notification tables before it, for an order update the old status, and
\* in touched the restaurants the row triggers of a rating statement
\* recalculated, or the comments the deletion of a post removed
NoOp == [op |-> "none", id |-> NULL, outcome |-> "ok", custBefore |-> 0,
         ownerBefore |-> 0, oldStatus |-> "", touched |-> {}]

\* The largest element of a non-empty set of numbers
Max(S) == CHOOSE m \in S : \A n \in S : n <= m

\* A new primary key: one that no row of the table has
NextId(ids) == IF ids = {} THEN 1 ELSE Max(ids) + 1

\* The primary keys of the rows of a table kept in insertion order
SeqIds(rows) == {rows[k].id : k \in 1..Len(rows)}

----------------------------------------------------------------------------
(* Blog comments: the two AFTER INSERT row triggers of blog_comments *)

CommentIds == {c.id : c \in comments}

CommentById(cs, i) == CHOOSE c \in cs : c.id = i

\* SELECT bp.restaurant_id FROM blog_posts bp WHERE bp.id = p
RestaurantOfPost(p) == IF p \in posts THEN PostRestaurant[p] ELSE NULL

\* SELECT r.name FROM blog_posts bp JOIN restaurants r ... WHERE bp.id = p
RestaurantNameOfPost(p) ==
    IF p \in posts /\ PostRestaurant[p] \in Restaurants
    THEN Some(RestaurantName[PostRestaurant[p]]) ELSE None

\* SELECT title FROM blog_posts WHERE id = p
TitleOfPost(p) == IF p \in posts THEN Some(PostTitle[p]) ELSE None

\* Variant: the name is taken from the profile only
CustomerDisplayNameNoEmail(prof, c) ==
    IF c \notin Users THEN None
    ELSE IF prof[c] # NoProfile /\ prof[c] # None THEN prof[c]
    ELSE None

\* SELECT COALESCE(p.full_name, split_part(u.email, '@', 1))
\*   FROM auth.users u LEFT JOIN profiles p ON p.id = u.id WHERE u.id = c
CustomerDisplayName(prof, c) ==
    IF c \notin Users THEN None
    ELSE IF prof[c] # NoProfile /\ prof[c] # None THEN prof[c]
    ELSE Some(EmailLocalPart[c])

\* Variant: the parent is read through a view that hides soft-deleted comments
ParentAuthorVisible(cs, parent) ==
    IF \E c \in cs : c.id = parent /\ ~c.is_deleted
    THEN CommentById(cs, parent).customer_id ELSE NULL

\* SELECT customer_id FROM blog_comments WHERE id = parent
ParentAuthor(cs, parent) ==
    IF \E c \in cs : c.id = parent THEN CommentById(cs, parent).customer_id ELSE NULL

\* format('%s commented on your blog post "%s": "%s"', ...)
OwnerMessage(prof, new) ==
    << Coalesce(CustomerDisplayName(prof, new.customer_id), "A customer"),
       " commented on your blog post \"",
       Coalesce(TitleOfPost(new.blog_post_id), "a blog post"),
       "\": \"", Preview(new.content), "\"" >>

\* Variant: the message quotes the whole reply
ReplyMessageWhole(new) ==
    << Coalesce(RestaurantNameOfPost(new.blog_post_id), "Restaurant"),
       " replied: \"", new.content, "\"" >>

\* format('%s replied: "%s"', ...)
ReplyMessage(new) ==
    << Coalesce(RestaurantNameOfPost(new.blog_post_id), "Restaurant"),
       " replied: \"", Preview(new.content), "\"" >>

\* Variant: the stored comment text is the truncated preview
OwnerNotificationRowsPreview(cs, prof, own, new) ==
    IF new.parent_comment_id # NULL THEN << >>
    ELSE IF RestaurantOfPost(new.blog_post_id) = NULL THEN << >>
    ELSE << [ id |-> NextId(SeqIds(own)),
              restaurant_id |-> RestaurantOfPost(new.blog_post_id),
              customer_id |-> new.customer_id,
              blog_post_id |-> new.blog_post_id,
              comment_id |-> new.id,
              title |-> "New Blog Comment",
              message |-> OwnerMessage(prof, new),
              status |-> "unread",
              comment_content |-> Some(Preview(new.content)) ] >>

\* Variant: the owner trigger does not return early for a reply
OwnerNotificationRowsEveryComment(cs, prof, own, new) ==
    IF RestaurantOfPost(new.blog_post_id) = NULL THEN << >>
    ELSE << [ id |-> NextId(SeqIds(own)),
              restaurant_id |-> RestaurantOfPost(new.blog_post_id),
              customer_id |-> new.customer_id,
              blog_post_id |-> new.blog_post_id,
              comment_id |-> new.id,
              title |-> "New Blog Comment",
              message |-> OwnerMessage(prof, new),
              status |-> "unread",
              comment_content |-> Some(new.content) ] >>

\* The rows handle_blog_comment_notification inserts for the new comment
OwnerNotificationRows(cs, prof, own, new) ==
    IF new.parent_comment_id # NULL THEN << >>
    ELSE IF RestaurantOfPost(new.blog_post_id) = NULL THEN << >>
    ELSE << [ id |-> NextId(SeqIds(own)),
              restaurant_id |-> RestaurantOfPost(new.blog_post_id),
              customer_id |-> new.customer_id,
              blog_post_id |-> new.blog_post_id,
              comment_id |-> new.id,
              title |-> "New Blog Comment",
              message |-> OwnerMessage(prof, new),
              status |-> "unread",
              comment_content |-> Some(new.content) ] >>

\* Variant: the table has no unique constraint on comment_id
OwnerNotificationAcceptedNoUnique(prof, own, row) ==
    /\ row.restaurant_id \in Restaurants
    /\ row.customer_id \in Users /\ prof[row.customer_id] # NoProfile
    /\ row.blog_post_id \in posts
    /\ row.status \in {"unread", "read"}

\* The constraints of blog_comment_notifications on a new row
OwnerNotificationAccepted(prof, own, row) ==
    /\ row.restaurant_id \in Restaurants
    /\ row.customer_id \in Users /\ prof[row.customer_id] # NoProfile
    /\ row.blog_post_id \in posts
    /\ \A k \in 1..Len(own) : own[k].comment_id # row.comment_id
    /\ row.status \in {"unread", "read"}

\* Variant: the notification of a reply carries no post
ReplyNotificationRowsNoPost(cs, cust, new) ==
    IF new.parent_comment_id = NULL THEN << >>
    ELSE IF ParentAuthor(cs, new.parent_comment_id) = NULL THEN << >>
    ELSE << [ id |-> NextId(SeqIds(cust)),
              customer_id |-> ParentAuthor(cs, new.parent_comment_id),
              order_id |-> NULL,
              title |-> "Comment Reply",
              message |-> ReplyMessage(new),
              status |-> "unread",
              blog_post_id |-> NULL,
              reply_content |-> Some(new.content),
              restaurant_name |-> RestaurantNameOfPost(new.blog_post_id) ] >>

\* The rows handle_blog_comment_reply inserts for the new comment
ReplyNotificationRows(cs, cust, new) ==
    IF new.parent_comment_id = NULL THEN << >>
    ELSE IF ParentAuthor(cs, new.parent_comment_id) = NULL THEN << >>
    ELSE << [ id |-> NextId(SeqIds(cust)),
              customer_id |-> ParentAuthor(cs, new.parent_comment_id),
              order_id |-> NULL,
              title |-> "Comment Reply",
              message |-> ReplyMessage(new),
              status |-> "unread",
              blog_post_id |-> new.blog_post_id,
              reply_content |-> Some(new.content),
              restaurant_name |-> RestaurantNameOfPost(new.blog_post_id) ] >>

\* SIMPLE_FIX_SCRIPT.sql: v_restaurant_name || ' replied: "' || ... || '"',
\* which is NULL when the name is NULL
ReplyMessageSimple(new) ==
    IF RestaurantNameOfPost(new.blog_post_id) = None THEN None
    ELSE << RestaurantNameOfPost(new.blog_post_id)[1],
            " replied: \"", Preview(new.content), "\"" >>

\* The rows the handle_blog_comment_reply of SIMPLE_FIX_SCRIPT.sql inserts
ReplyNotificationRowsSimple(cs, cust, new) ==
    IF new.parent_comment_id = NULL THEN << >>
    ELSE IF ParentAuthor(cs, new.parent_comment_id) = NULL THEN << >>
    ELSE << [ id |-> NextId(SeqIds(cust)),
              customer_id |-> ParentAuthor(cs, new.parent_comment_id),
              order_id |-> NULL,
              title |-> "Comment Reply",
              message |-> ReplyMessageSimple(new),
              status |-> "unread",
              blog_post_id |-> new.blog_post_id,
              reply_content |-> Some(new.content),
              restaurant_name |-> RestaurantNameOfPost(new.blog_post_id) ] >>

\* INSERT INTO blog_comments: the row, then both triggers.  A trigger that
\* raises aborts the statement, and the comment row goes with it.
InsertComment(post, author, content, parent) ==
    /\ Cardinality(comments) < MaxComments
    /\ post \in posts
    /\ parent \in CommentIds \cup {NULL}
    /\ LET new == [ id |-> NextId(CommentIds),
                    blog_post_id |-> post,
                    customer_id |-> author,
                    content |-> content,
                    parent_comment_id |-> parent,
                    is_deleted |-> FALSE ]
           cs == comments \cup {new}
           ownRows == OwnerNotificationRows(cs, profiles, ownerNotifs, new)
           ownOk == \A k \in 1..Len(ownRows) :
                        OwnerNotificationAccepted(profiles, ownerNotifs, ownRows[k])
           custRows == ReplyNotificationRows(cs, custNotifs, new)
       IN IF ownOk
          THEN /\ comments' = cs
               /\ ownerNotifs' = ownerNotifs \o ownRows
               /\ custNotifs' = custNotifs \o custRows
               /\ lastOp' = [NoOp EXCEPT !.op = "insert_comment", !.id = new.id,
                                         !.custBefore = Len(custNotifs),
                                         !.ownerBefore = Len(ownerNotifs)]
          ELSE /\ UNCHANGED <<comments, ownerNotifs, custNotifs>>
               /\ lastOp' = [NoOp EXCEPT !.op = "insert_comment", !.id = new.id,
                                         !.outcome = "notification rejected",
                                         !.custBefore = Len(custNotifs),
                                         !.ownerBefore = Len(ownerNotifs)]
    /\ UNCHANGED <<posts, profiles, orders, ratings, restRating, txns, delBase, hook>>

\* UPDATE blog_comments SET is_deleted = true WHERE id = i
SoftDeleteComment(i) ==
    /\ i \in {c.id : c \in {d \in comments : ~d.is_deleted}}
    /\ comments' = {IF c.id = i THEN [c EXCEPT !.is_deleted = TRUE] ELSE c : c \in comments}
    /\ lastOp' = [NoOp EXCEPT !.op = "soft_delete_comment", !.id = i,
                              !.custBefore = Len(custNotifs),
                              !.ownerBefore = Len(ownerNotifs)]
    /\ UNCHANGED <<posts, profiles, custNotifs, ownerNotifs, orders, ratings, restRating,
                   txns, delBase, hook>>

\* INSERT INTO profiles (id, full_name) ... ON CONFLICT (id) DO NOTHING
InsertProfile(u) ==
    /\ profiles[u] = NoProfile
    /\ profiles' = [profiles EXCEPT ![u] = ProfileFullName[u]]
    /\ lastOp' = [NoOp EXCEPT !.op = "insert_profile", !.id = u,
                              !.custBefore = Len(custNotifs),
                              !.ownerBefore = Len(ownerNotifs)]
    /\ UNCHANGED <<posts, comments, custNotifs, ownerNotifs, orders, ratings, restRating,
                   txns, delBase, hook>>

\* INSERT INTO blog_comment_notifications by a restaurant owner, as the
\* insert policy of the table allows: a row for comment cm
InsertOwnerNotification(r, c, p, cm) ==
    /\ cm \in CommentIds
    /\ LET row == [ id |-> NextId(SeqIds(ownerNotifs)),
                    restaurant_id |-> r,
                    customer_id |-> c,
                    blog_post_id |-> p,
                    comment_id |-> cm,
                    title |-> "New Blog Comment",
                    message |-> << "See the new comment" >>,
                    status |-> "unread",
                    comment_content |-> None ]
           ok == OwnerNotificationAccepted(profiles, ownerNotifs, row)
       IN /\ ownerNotifs' = IF ok THEN Append(ownerNotifs, row) ELSE ownerNotifs
          /\ lastOp' = [NoOp EXCEPT !.op = "insert_owner_notification", !.id = cm,
                                    !.outcome = IF ok THEN "ok" ELSE "rejected",
                                    !.custBefore = Len(custNotifs),
                                    !.ownerBefore = Len(ownerNotifs)]
    /\ UNCHANGED <<posts, comments, profiles, custNotifs, orders, ratings, restRating,
                   txns, delBase, hook>>

\* Variant: only the comments written on the post itself go with it
CommentsOnPost(cs, gone, p) == {c \in cs : c.blog_post_id = p}

\* ON DELETE CASCADE of blog_comments: the comments on post p, and every
\* comment whose parent comment is removed
RECURSIVE CascadedComments(_, _, _)
CascadedComments(cs, gone, p) ==
    LET more == {c \in cs \ gone :
                    \/ c.blog_post_id = p
                    \/ c.parent_comment_id \in {g.id : g \in gone}}
    IN IF more = {} THEN gone ELSE CascadedComments(cs, gone \cup more, p)

\* supabase.from("blog_posts").delete().eq("id", p).eq("restaurant_id", r),
\* with the cascades of the foreign keys on blog_posts and blog_comments
DeletePost(p, r) ==
    /\ p \in posts
    /\ LET hit == PostRestaurant[p] = r
           gone == IF hit THEN CascadedComments(comments, {}, p) ELSE {}
           goneIds == {g.id : g \in gone}
       IN /\ posts' = IF hit THEN posts \ {p} ELSE posts
          /\ comments' = comments \ gone
          /\ ownerNotifs' = IF hit
                            THEN SelectSeq(ownerNotifs,
                                     LAMBDA n : /\ n.blog_post_id # p
                                                /\ n.comment_id \notin goneIds)
                            ELSE ownerNotifs
          /\ custNotifs' = IF hit
                           THEN SelectSeq(custNotifs, LAMBDA n : n.blog_post_id # p)
                           ELSE custNotifs
          /\ lastOp' = [NoOp EXCEPT !.op = "delete_post", !.id = p,
                                    !.custBefore = Len(custNotifs'),
                                    !.ownerBefore = Len(ownerNotifs'),
                                    !.touched = goneIds]
    /\ UNCHANGED <<profiles, orders, ratings, restRating, txns, delBase, hook>>

----------------------------------------------------------------------------
(* Ratings: restaurant_ratings and the aggregate restaurants.rating *)

RatingIds(rows) == {t.id : t \in rows}

RowsOf(rows, x) == {t \in rows : t.restaurant_id = x}

\* gen_random_uuid(): an id no row of the table has
FreshId(ids) == CHOOSE i \in 1..(Cardinality(ids) + 1) : i \notin ids

RECURSIVE SumRatings(_)
SumRatings(rows) ==
    IF rows = {} THEN 0
    ELSE LET t == CHOOSE t \in rows : TRUE IN t.rating + SumRatings(rows \ {t})

\* Rounding of a non-negative quotient a / b to the nearest integer, half up
RoundDiv(a, b) == (2 * a + b) \div (2 * b)

\* avg(rating)::numeric(3,2): the mean of the tenths, in hundredths
CustomerAvg(rows) == RoundDiv(10 * SumRatings(rows), Cardinality(rows))

\* v_final := round(v_customer_avg * 10) / 10.0, in tenths
FinalRating(avgHundredths) == RoundDiv(avgHundredths, 10)

\* Variant: with no rating left the restaurant falls back to the seeded rating
RecalculateOrReset(rows, x, current) ==
    IF RowsOf(rows, x) = {} THEN AdminRating
    ELSE FinalRating(CustomerAvg(RowsOf(rows, x)))

\* Variant: with no rating left the restaurant's rating is cleared
RecalculateOrNull(rows, x, current) ==
    IF RowsOf(rows, x) = {} THEN NULL
    ELSE FinalRating(CustomerAvg(RowsOf(rows, x)))

\* recalculate_restaurant_rating(x): the new restaurants.rating of x
RecalculateRestaurantRating(rows, x, current) ==
    IF RowsOf(rows, x) = {} THEN current
    ELSE FinalRating(CustomerAvg(RowsOf(rows, x)))

\* The row triggers of one statement: each recalculates a restaurant of
\* `touched` on the table as the statement left it
AfterRatingChange(rows, touched, rr) ==
    [x \in Restaurants |->
        IF x \in touched THEN RecalculateRestaurantRating(rows, x, rr[x]) ELSE rr[x]]

\* unique (restaurant_id, customer_id, order_id): nulls never collide
UniqueTriple(rows, row) ==
    ~ \E t \in rows :
        /\ t.id # row.id
        /\ t.order_id # NULL /\ row.order_id # NULL
        /\ <<t.restaurant_id, t.customer_id, t.order_id>>
               = <<row.restaurant_id, row.customer_id, row.order_id>>

OrderIds == {o.id : o \in orders}

\* The frame of the rating statements, and their history
RatingFrame(opname, i, touched, deleting) ==
    /\ lastOp' = [NoOp EXCEPT !.op = opname, !.id = i,
                              !.custBefore = Len(custNotifs),
                              !.ownerBefore = Len(ownerNotifs),
                              !.touched = touched]
    /\ delBase' = [x \in Restaurants |->
                      IF x \notin touched THEN delBase[x]
                      ELSE IF ~deleting THEN NULL
                      ELSE IF delBase[x] = NULL THEN restRating[x]
                      ELSE delBase[x]]
    /\ UNCHANGED <<posts, comments, profiles, custNotifs, ownerNotifs, orders, txns, hook>>

\* INSERT INTO restaurant_ratings, then trg_restaurant_ratings_change
InsertRating(r, c, o, v) ==
    /\ o \in OrderIds \cup {NULL}
    /\ LET row == [ id |-> FreshId(RatingIds(ratings)), restaurant_id |-> r,
                    customer_id |-> c, order_id |-> o, rating |-> v ]
       IN /\ UniqueTriple(ratings, row)
          /\ ratings' = ratings \cup {row}
          /\ restRating' = AfterRatingChange(ratings', {r}, restRating)
          /\ RatingFrame("insert_rating", row.id, {r}, FALSE)

\* UPDATE restaurant_ratings SET restaurant_id = r, rating = v WHERE id = i
UpdateRating(i, r, v) ==
    /\ i \in RatingIds(ratings)
    /\ LET old == CHOOSE t \in ratings : t.id = i
           new == [old EXCEPT !.restaurant_id = r, !.rating = v]
           between == AfterRatingChange(ratings', {old.restaurant_id} \ {r}, restRating)
       IN /\ UniqueTriple(ratings, new)
          /\ ratings' = (ratings \ {old}) \cup {new}
          /\ restRating' = AfterRatingChange(ratings', {r}, between)
          /\ RatingFrame("update_rating", i, {old.restaurant_id, r}, FALSE)

\* DELETE FROM restaurant_ratings WHERE id IN ids: one statement; the row
\* triggers run once the statement has removed every row
DeleteRatings(ids) ==
    /\ ids # {} /\ ids \subseteq RatingIds(ratings)
    /\ LET gone == {t \in ratings : t.id \in ids}
           touched == {t.restaurant_id : t \in gone}
       IN /\ ratings' = ratings \ gone
          /\ restRating' = AfterRatingChange(ratings', touched, restRating)
          /\ RatingFrame("delete_ratings", CHOOSE i \in ids : TRUE, touched, TRUE)

----------------------------------------------------------------------------
(* Orders: the AFTER UPDATE row trigger of orders *)

OrderById(i) == CHOOSE o \in orders : o.id = i

\* select id from restaurant_ratings where restaurant_id = NEW.restaurant_id
\*   and customer_id = NEW.customer_id and order_id = NEW.id limit 1
ExistingRating(rows, new) ==
    \E t \in rows : /\ t.restaurant_id = new.restaurant_id
                    /\ t.customer_id = new.customer_id
                    /\ t.order_id = new.id

\* The row the rating prompt inserts for the updated order
PromptRow(cust, new) ==
    [ id |-> NextId(SeqIds(cust)),
      customer_id |-> new.customer_id,
      order_id |-> new.id,
      title |-> RatingPromptTitle,
      message |-> << RatingPromptMessage >>,
      status |-> "unread",
      blog_post_id |-> NULL,
      reply_content |-> None,
      restaurant_name |-> None ]

\* Variant: only 'completed' prompts
RatingPromptRowsCompletedOnly(rows, cust, old, new) ==
    IF new.customer_id = NULL \/ new.restaurant_id = NULL THEN << >>
    ELSE IF new.status = "completed" /\ old.status # new.status
    THEN IF ~ExistingRating(rows, new) THEN << PromptRow(cust, new) >> ELSE << >>
    ELSE << >>

\* Variant: the old status is not compared with the new one
RatingPromptRowsEveryWrite(rows, cust, old, new) ==
    IF new.customer_id = NULL \/ new.restaurant_id = NULL THEN << >>
    ELSE IF new.status \in {"completed", "served"}
    THEN IF ~ExistingRating(rows, new) THEN << PromptRow(cust, new) >> ELSE << >>
    ELSE << >>

\* Variant: an existing rating is not looked up
RatingPromptRowsNoLookup(rows, cust, old, new) ==
    IF new.customer_id = NULL \/ new.restaurant_id = NULL THEN << >>
    ELSE IF new.status \in {"completed", "served"} /\ old.status # new.status
    THEN << PromptRow(cust, new) >>
    ELSE << >>

\* Variant: an order without customer or restaurant is prompted as well
RatingPromptRowsNoNullGuard(rows, cust, old, new) ==
    IF new.status \in {"completed", "served"} /\ old.status # new.status
    THEN IF ~ExistingRating(rows, new) THEN << PromptRow(cust, new) >> ELSE << >>
    ELSE << >>

\* The rows handle_order_status_rating_prompt inserts on UPDATE of old to new
RatingPromptRows(rows, cust, old, new) ==
    IF new.customer_id = NULL \/ new.restaurant_id = NULL THEN << >>
    ELSE IF new.status \in {"completed", "served"} /\ old.status # new.status
    THEN IF ~ExistingRating(rows, new) THEN << PromptRow(cust, new) >> ELSE << >>
    ELSE << >>

\* supabase.from('orders').insert({..., status: 'paid'})
InsertOrder(c, r) ==
    /\ Cardinality(orders) < MaxOrders
    /\ orders' = orders \cup {[ id |-> Cardinality(orders) + 1, customer_id |-> c,
                                restaurant_id |-> r, status |-> "paid" ]}
    /\ lastOp' = [NoOp EXCEPT !.op = "insert_order", !.id = Cardinality(orders) + 1,
                              !.custBefore = Len(custNotifs),
                              !.ownerBefore = Len(ownerNotifs)]
    /\ UNCHANGED <<posts, comments, profiles, custNotifs, ownerNotifs, ratings, restRating,
                   txns, delBase, hook>>

\* supabase.from('orders').update({ status: newStatus }).eq('id', i), then
\* trg_order_status_rating_prompt, while customer_notifications holds fewer
\* than maxRows rows
UpdateOrderStatusUpTo(i, newStatus, maxRows) ==
    /\ i \in OrderIds
    /\ Len(custNotifs) < maxRows
    /\ LET old == OrderById(i)
           new == [old EXCEPT !.status = newStatus]
       IN /\ orders' = (orders \ {old}) \cup {new}
          /\ custNotifs' = custNotifs \o RatingPromptRows(ratings, custNotifs, old, new)
          /\ lastOp' = [NoOp EXCEPT !.op = "update_order", !.id = i,
                                    !.custBefore = Len(custNotifs),
                                    !.ownerBefore = Len(ownerNotifs),
                                    !.oldStatus = old.status]
    /\ UNCHANGED <<posts, comments, profiles, ownerNotifs, ratings, restRating, txns,
                   delBase, hook>>

\* The update of an order's status in the specifications of the store
UpdateOrderStatus(i, newStatus) == UpdateOrderStatusUpTo(i, newStatus, MaxPrompts)

\* UPDATE customer_notifications cn SET blog_post_id = (SELECT DISTINCT
\* bc.blog_post_id ... ORDER BY bc.created_at DESC LIMIT 1) WHERE cn.title =
\* 'Comment Reply' AND cn.blog_post_id IS NULL.  PostgreSQL rejects the
\* subquery when it analyses the statement ("for SELECT DISTINCT, ORDER BY
\* expressions must appear in select list"), so no row is updated.
BackfillBlogPostId ==
    /\ lastOp' = [NoOp EXCEPT !.op = "backfill_blog_post_id", !.outcome = "error",
                              !.custBefore = Len(custNotifs),
                              !.ownerBefore = Len(ownerNotifs)]
    /\ UNCHANGED <<posts, comments, profiles, custNotifs, ownerNotifs, orders, ratings,
                   restRating, txns, delBase, hook>>

----------------------------------------------------------------------------
(* Rating statements in concurrent transactions, read committed.  A         *)
(* transaction runs one statement on restaurant_ratings; its row trigger    *)
(* runs "select avg(rating)" on the committed rows and its own change, then *)
(* "update restaurants", which waits for the row lock of the restaurant.    *)

Txns == {1, 2}

IdleTxn == [pc |-> "idle", kind |-> "none", row |-> NULL, final |-> NULL]

Active(t) == txns[t].pc # "idle"

PendingIds == {txns[t].row.id : t \in {u \in Txns : Active(u)}}

\* The rows a statement of t sees: committed rows and t's own change
VisibleTo(t) ==
    IF txns[t].kind = "insert" THEN ratings \cup {txns[t].row}
    ELSE IF txns[t].kind = "delete" THEN ratings \ {txns[t].row}
    ELSE ratings

TxnFrame(opname, t) ==
    /\ lastOp' = [NoOp EXCEPT !.op = opname, !.id = t,
                              !.custBefore = Len(custNotifs),
                              !.ownerBefore = Len(ownerNotifs)]
    /\ UNCHANGED <<posts, comments, profiles, custNotifs, ownerNotifs, orders, delBase, hook>>

\* BEGIN; INSERT INTO restaurant_ratings
TxnInsert(t, r, c, v) ==
    /\ ~Active(t)
    /\ Cardinality(RatingIds(ratings) \cup PendingIds) < MaxTxnRatings
    /\ txns' = [txns EXCEPT ![t] =
                   [pc |-> "changed", kind |-> "insert", final |-> NULL,
                    row |-> [ id |-> FreshId(RatingIds(ratings) \cup PendingIds),
                              restaurant_id |-> r, customer_id |-> c,
                              order_id |-> NULL, rating |-> v ]]]
    /\ UNCHANGED <<ratings, restRating>>
    /\ TxnFrame("txn_insert", t)

\* BEGIN; DELETE FROM restaurant_ratings WHERE id = i (takes the row lock)
TxnDelete(t, i) ==
    /\ ~Active(t)
    /\ i \in RatingIds(ratings) \ PendingIds
    /\ txns' = [txns EXCEPT ![t] =
                   [pc |-> "changed", kind |-> "delete", final |-> NULL,
                    row |-> CHOOSE row \in ratings : row.id = i]]
    /\ UNCHANGED <<ratings, restRating>>
    /\ TxnFrame("txn_delete", t)

\* recalculate_restaurant_rating: select avg(rating) ... into v_customer_avg
TxnSelectAvg(t) ==
    /\ txns[t].pc = "changed"
    /\ LET x == txns[t].row.restaurant_id
           seen == RowsOf(VisibleTo(t), x)
       IN txns' = [txns EXCEPT ![t] =
                      IF seen = {} THEN [@ EXCEPT !.pc = "done"]
                      ELSE [@ EXCEPT !.pc = "computed",
                                     !.final = FinalRating(CustomerAvg(seen))]]
    /\ UNCHANGED <<ratings, restRating>>
    /\ TxnFrame("txn_select_avg", t)

\* recalculate_restaurant_rating: update restaurants set rating = v_final
TxnUpdateRestaurant(t) ==
    /\ txns[t].pc = "computed"
    /\ ~ \E u \in Txns \ {t} : /\ txns[u].pc = "updated"
                               /\ txns[u].row.restaurant_id = txns[t].row.restaurant_id
    /\ txns' = [txns EXCEPT ![t].pc = "updated"]
    /\ UNCHANGED <<ratings, restRating>>
    /\ TxnFrame("txn_update_restaurant", t)

\* COMMIT
TxnCommit(t) ==
    /\ txns[t].pc \in {"updated", "done"}
    /\ ratings' = VisibleTo(t)
    /\ restRating' = IF txns[t].pc = "updated"
                     THEN [restRating EXCEPT ![txns[t].row.restaurant_id] = txns[t].final]
                     ELSE restRating
    /\ txns' = [txns EXCEPT ![t] = IdleTxn]
    /\ TxnFrame("txn_commit", t)

----------------------------------------------------------------------------
(* The notification hooks of useCustomerNotifications.tsx.  A mounted hook  *)
(* is useCustomerNotifications (kind "customer": customer_notifications of  *)
(* the signed-in user) or useRestaurantBlogNotifications (kind "owner":     *)
(* blog_comment_notifications of the restaurant the user owns).  It keeps   *)
(* the list and initialFetched as React state; its effects send the initial *)
(* fetch and hold the realtime channel.                                     *)

HookKinds == {"customer", "owner"}

\* restaurants.owner_id of the seeded restaurants: the first has an owner,
\* the others have none
RestaurantOwner == [r \in Restaurants |-> IF r = 1 THEN 1 ELSE NULL]

\* The state of a hook that is not mounted; kind tells which of the two
\* hooks the component on the page calls
NoHook == [ mounted |-> FALSE, kind |-> "customer", user |-> NULL,
            restaurantId |-> NULL, list |-> << >>, initialFetched |-> FALSE,
            channels |-> << >>, fetches |-> << >>, resolves |-> << >> ]

\* The table a hook of this kind reads
TableOf(kind) == IF kind = "customer" THEN custNotifs ELSE ownerNotifs

\* What the client keeps of a row: recipient is customer_id of
\* customer_notifications, restaurant_id of blog_comment_notifications
ClientRow(kind, n) ==
    [ id |-> n.id,
      recipient |-> IF kind = "customer" THEN n.customer_id ELSE n.restaurant_id,
      status |-> n.status ]

\* The value the effects of the hook depend on: user, or restaurantId
KeyOf(h) == IF h.kind = "customer" THEN h.user ELSE h.restaurantId

Reverse(s) == [i \in 1..Len(s) |-> s[Len(s) + 1 - i]]

\* s.slice(0, n)
Slice(s, n) == SubSeq(s, 1, IF Len(s) <= n THEN Len(s) ELSE n)

ListIds(list) == {list[j].id : j \in 1..Len(list)}

\* .eq(<recipient column>, key).order('created_at', { ascending: false }).limit(limit)
SelectNotifications(kind, key) ==
    Slice(Reverse(SelectSeq([j \in 1..Len(TableOf(kind)) |-> ClientRow(kind, TableOf(kind)[j])],
                            LAMBDA n : n.recipient = key)),
          ClientLimit)

\* update({ status: 'read' }) of the rows whose id is in ids
UpdateStatusRead(rows, ids) ==
    [j \in 1..Len(rows) |->
        IF rows[j].id \in ids THEN [rows[j] EXCEPT !.status = "read"] ELSE rows[j]]

\* prev.map(n => ids.includes(n.id) ? { ...n, status: 'read' } : n)
MapRead(list, ids) ==
    [j \in 1..Len(list) |->
        IF list[j].id \in ids THEN [list[j] EXCEPT !.status = "read"] ELSE list[j]]

\* Variant: the realtime handler prepends without looking for the id
OnInsertNoDedup(prev, row) == Slice(<< row >> \o prev, ClientLimit)

\* The functional update of the realtime handler
OnInsert(prev, row) ==
    IF \E j \in 1..Len(prev) : prev[j].id = row.id THEN prev
    ELSE Slice(<< row >> \o prev, ClientLimit)

\* Variant: the effect returns no cleanup
KeepChannel(chs) == chs

\* supabase.removeChannel(channel), the cleanup of the subscription effect
RemoveChannel(chs) == IF chs = << >> THEN << >> ELSE SubSeq(chs, 1, Len(chs) - 1)

\* The cleanup runs when the effect that is replaced had subscribed
Cleanup(chs, oldKey) == IF oldKey = NULL THEN chs ELSE RemoveChannel(chs)

\* The subscription effect: if (!key) return; otherwise a channel filtered
\* by the key, which gets the inserts after the n rows there are now
Subscribe(chs, key, n) ==
    IF key = NULL THEN chs ELSE Append(chs, [ key |-> key, since |-> n ])

\* The fetch effect: if (!key || initialFetched) return; otherwise the
\* request is sent
StartFetch(fs, key, fetched) ==
    IF key = NULL \/ fetched THEN fs
    ELSE Append(fs, [ key |-> key, phase |-> "sent", data |-> << >> ])

\* The resolve effect of the owner hook: a signed-in user asks for the
\* restaurant
StartResolve(rs, kind, u) ==
    IF kind = "customer" \/ u = NULL THEN rs ELSE Append(rs, [ user |-> u ])

\* The effects that depend on the key run again when it has changed
Rekey(h, old) ==
    IF KeyOf(h) = old THEN h
    ELSE [h EXCEPT !.channels = Subscribe(Cleanup(h.channels, old), KeyOf(h),
                                          Len(TableOf(h.kind))),
                   !.fetches = StartFetch(h.fetches, KeyOf(h), h.initialFetched)]

InFlight(h) == Len(h.fetches) + Len(h.resolves)

RemoveAt(s, k) == [j \in 1..(Len(s) - 1) |-> IF j < k THEN s[j] ELSE s[j + 1]]

\* .from('restaurants').select('id').eq('owner_id', u).single()
RestaurantOfOwner(u) ==
    IF Cardinality({r \in Restaurants : RestaurantOwner[r] = u}) = 1
    THEN CHOOSE r \in Restaurants : RestaurantOwner[r] = u
    ELSE NULL

\* What a step of the hook leaves alone; id is the row delivered, or the key
\* before the step
ClientFrame(op, id, outcome) ==
    /\ lastOp' = [NoOp EXCEPT !.op = op, !.id = id, !.outcome = outcome,
                              !.custBefore = Len(custNotifs),
                              !.ownerBefore = Len(ownerNotifs)]
    /\ UNCHANGED <<posts, comments, profiles, orders, ratings, restRating, txns, delBase>>

\* The component mounts while u is signed in (NULL: nobody): fresh state,
\* then the effects run
Mount(u) ==
    /\ ~hook.mounted
    /\ hook' = Rekey([hook EXCEPT !.mounted = TRUE, !.user = u,
                                  !.resolves = StartResolve(<< >>, hook.kind, u)],
                     NULL)
    /\ UNCHANGED <<custNotifs, ownerNotifs>>
    /\ ClientFrame("mount", NULL, "ok")

\* useAuth() returns another user (NULL: signed out).  The customer hook
\* runs its two effects again, the cleanup of the subscription first.  The
\* owner hook asks for the restaurant of the user or, when nobody is signed
\* in, sets restaurantId to null and empties the list.
AuthChange(u) ==
    /\ hook.mounted
    /\ u # hook.user
    /\ LET h == [hook EXCEPT
                   !.user = u,
                   !.restaurantId = IF u = NULL THEN NULL ELSE @,
                   !.list = IF hook.kind = "owner" /\ u = NULL THEN << >> ELSE @,
                   !.resolves = StartResolve(@, hook.kind, u)]
       IN /\ InFlight(Rekey(h, KeyOf(hook))) <= MaxFetches
          /\ hook' = Rekey(h, KeyOf(hook))
    /\ UNCHANGED <<custNotifs, ownerNotifs>>
    /\ ClientFrame("auth_change", KeyOf(hook), "ok")

\* fetchRestaurantForOwner continues after its await: setRestaurantId(null)
\* and setNotifications([]) on error or without a row, setRestaurantId(id)
\* otherwise
ResolveRestaurant(k, ok) ==
    /\ k \in 1..Len(hook.resolves)
    /\ LET r == IF ok THEN RestaurantOfOwner(hook.resolves[k].user) ELSE NULL
           h == [hook EXCEPT !.restaurantId = r,
                             !.list = IF r = NULL THEN << >> ELSE @,
                             !.resolves = RemoveAt(@, k)]
       IN hook' = Rekey(h, KeyOf(hook))
    /\ UNCHANGED <<custNotifs, ownerNotifs>>
    /\ ClientFrame("resolve_restaurant", KeyOf(hook), IF ok THEN "ok" ELSE "error")

\* The component unmounts: the cleanup runs, the state is dropped, and what
\* a request in flight sets later is ignored
Unmount ==
    /\ hook.mounted
    /\ hook' = [NoHook EXCEPT !.kind = hook.kind,
                              !.channels = Cleanup(hook.channels, KeyOf(hook))]
    /\ UNCHANGED <<custNotifs, ownerNotifs>>
    /\ ClientFrame("unmount", KeyOf(hook), "ok")

\* The store answers the select of request k, or fails
FetchAnswer(k, ok) ==
    /\ k \in 1..Len(hook.fetches)
    /\ hook.fetches[k].phase = "sent"
    /\ hook' = [hook EXCEPT !.fetches[k] =
                  IF ok THEN [@ EXCEPT !.phase = "answered",
                                       !.data = SelectNotifications(hook.kind,
                                                                    hook.fetches[k].key)]
                  ELSE [@ EXCEPT !.phase = "failed"]]
    /\ UNCHANGED <<custNotifs, ownerNotifs>>
    /\ ClientFrame("fetch_answer", NULL, IF ok THEN "ok" ELSE "error")

\* fetchInitialNotifications continues after its await: setNotifications([])
\* on error, setNotifications(data) otherwise, then setInitialFetched(true)
FetchResolve(k) ==
    /\ k \in 1..Len(hook.fetches)
    /\ hook.fetches[k].phase # "sent"
    /\ hook' = [hook EXCEPT
                  !.list = IF hook.fetches[k].phase = "failed" THEN << >>
                           ELSE hook.fetches[k].data,
                  !.initialFetched = TRUE,
                  !.fetches = RemoveAt(hook.fetches, k)]
    /\ UNCHANGED <<custNotifs, ownerNotifs>>
    /\ ClientFrame("fetch_resolve", NULL,
                   IF hook.fetches[k].phase = "failed" THEN "error" ELSE "ok")

\* Channel k delivers the INSERT of row j of the table (payload.new, the row
\* as it was inserted); a delivery may repeat
RealtimeInsert(k, j) ==
    /\ hook.mounted
    /\ k \in 1..Len(hook.channels)
    /\ j \in (hook.channels[k].since + 1)..Len(TableOf(hook.kind))
    /\ ClientRow(hook.kind, TableOf(hook.kind)[j]).recipient = hook.channels[k].key
    /\ hook' = [hook EXCEPT !.list =
                  OnInsert(@, [ClientRow(hook.kind, TableOf(hook.kind)[j])
                                 EXCEPT !.status = "unread"])]
    /\ UNCHANGED <<custNotifs, ownerNotifs>>
    /\ ClientFrame("realtime_insert", TableOf(hook.kind)[j].id, "ok")

\* The update of the hook's table that marks ids as read
StoreRead(ids) ==
    /\ custNotifs' = IF hook.kind = "customer" THEN UpdateStatusRead(custNotifs, ids)
                     ELSE custNotifs
    /\ ownerNotifs' = IF hook.kind = "owner" THEN UpdateStatusRead(ownerNotifs, ids)
                      ELSE ownerNotifs

\* markAsRead(id), called by handleNotificationClick for an entry of the list
MarkAsRead(i, ok) ==
    /\ hook.mounted
    /\ i \in ListIds(hook.list)
    /\ IF ok
       THEN /\ StoreRead({i})
            /\ hook' = [hook EXCEPT !.list = MapRead(@, {i})]
       ELSE UNCHANGED <<custNotifs, ownerNotifs, hook>>
    /\ ClientFrame("mark_as_read", NULL, IF ok THEN "ok" ELSE "error")

\* The ids markAllAsRead sends: the unread entries of the list
UnreadIds(list) == {list[j].id : j \in {m \in 1..Len(list) : list[m].status = "unread"}}

\* markAllAsRead()
MarkAllAsRead(ok) ==
    /\ hook.mounted
    /\ IF KeyOf(hook) = NULL \/ UnreadIds(hook.list) = {}
       THEN /\ UNCHANGED <<custNotifs, ownerNotifs, hook>>
            /\ ClientFrame("mark_all_as_read", NULL, "skipped")
       ELSE IF ok
       THEN /\ StoreRead(UnreadIds(hook.list))
            /\ hook' = [hook EXCEPT !.list = MapRead(@, UnreadIds(hook.list))]
            /\ ClientFrame("mark_all_as_read", NULL, "ok")
       ELSE /\ UNCHANGED <<custNotifs, ownerNotifs, hook>>
            /\ ClientFrame("mark_all_as_read", NULL, "error")

----------------------------------------------------------------------------
(* Initial state: empty tables, the seeded restaurants *)

Init ==
    /\ posts = Posts
    /\ comments = {}
    /\ profiles = [u \in Users |-> NoProfile]
    /\ custNotifs = << >>
    /\ ownerNotifs = << >>
    /\ orders = {}
    /\ ratings = {}
    /\ restRating = [r \in Restaurants |-> AdminRating]
    /\ txns = [t \in Txns |-> IdleTxn]
    /\ delBase = [r \in Restaurants |-> NULL]
    /\ hook = NoHook
    /\ lastOp = NoOp

NextBlog ==
    \/ \E p \in Posts, a \in Users, c \in Contents, par \in CommentIds \cup {NULL} :
           InsertComment(p, a, c, par)
    \/ \E i \in CommentIds : SoftDeleteComment(i)
    \/ \E u \in Users : InsertProfile(u)

SpecBlog == Init /\ [][NextBlog]_vars

\* Short comments of user 1, owner notifications inserted by the owner of
\* the post's restaurant, and the deletion of posts
NextStore ==
    \/ \E p \in Posts, par \in CommentIds \cup {NULL} : InsertComment(p, 1, Rep(3), par)
    \/ \E i \in CommentIds : SoftDeleteComment(i)
    \/ \E u \in Users : InsertProfile(u)
    \/ /\ Len(ownerNotifs) < MaxOwnerNotifs
       /\ \E c \in Users, cm \in CommentIds :
              LET p == CommentById(comments, cm).blog_post_id
              IN InsertOwnerNotification(PostRestaurant[p], c, p, cm)
    \/ \E p \in Posts, r \in Restaurants : DeletePost(p, r)

SpecStore == Init /\ [][NextStore]_vars

NextOrder ==
    \/ \E c \in {1, NULL}, r \in {1, NULL} : InsertOrder(c, r)
    \/ \E i \in OrderIds, st \in OrderStatuses : UpdateOrderStatus(i, st)
    \/ /\ Cardinality(ratings) < MaxOrderRatings
       /\ \E c \in Users, o \in OrderIds \cup {NULL} : InsertRating(1, c, o, 50)

SpecOrder == Init /\ [][NextOrder]_vars

\* Both kinds of customer notification: comments and replies of user 1 on
\* post 1, and orders of restaurant 1
NextNotify ==
    \/ \E par \in CommentIds \cup {NULL} : InsertComment(1, 1, Rep(3), par)
    \/ InsertProfile(1)
    \/ \E c \in {1, NULL}, r \in {1, NULL} : InsertOrder(c, r)
    \/ \E i \in OrderIds, st \in {"preparing", "served", "completed"} :
           UpdateOrderStatus(i, st)
    \/ BackfillBlogPostId

SpecNotify == Init /\ [][NextNotify]_vars

NextRate ==
    \/ /\ Cardinality(ratings) < MaxRatings
       /\ \E r \in Restaurants, c \in Users, v \in RatingValues : InsertRating(r, c, NULL, v)
    \/ \E i \in RatingIds(ratings), r \in Restaurants, v \in RatingValues : UpdateRating(i, r, v)
    \/ \E ids \in SUBSET RatingIds(ratings) : DeleteRatings(ids)

SpecRate == Init /\ [][NextRate]_vars

\* Many ratings of one restaurant by one customer, none tied to an order
NextBulk ==
    \/ /\ Cardinality(ratings) < MaxBulkRatings
       /\ \E v \in RatingValues : InsertRating(1, 1, NULL, v)
    \/ \E i \in RatingIds(ratings), v \in RatingValues : UpdateRating(i, 1, v)

SpecBulk == Init /\ [][NextBulk]_vars

\* Many ratings of restaurant 1, and ratings of restaurant 2 that are
\* reassigned to restaurant 1 one at a time
NextMove ==
    \/ /\ Cardinality(ratings) < MaxBulkRatings
       /\ \E v \in RatingValues : InsertRating(1, 1, NULL, v)
    \/ /\ Cardinality(ratings) < MaxBulkRatings
       /\ Cardinality(RowsOf(ratings, 2)) < MaxMoving
       /\ \E v \in RatingValues : InsertRating(2, 1, NULL, v)
    \/ \E i \in RatingIds(RowsOf(ratings, 2)) : UpdateRating(i, 1, 50)

SpecMove == Init /\ [][NextMove]_vars


NextTxn ==
    \/ \E t \in Txns, c \in Users, v \in RatingValues : TxnInsert(t, 1, c, v)
    \/ \E t \in Txns, i \in RatingIds(ratings) : TxnDelete(t, i)
    \/ \E t \in Txns : TxnSelectAvg(t)
    \/ \E t \in Txns : TxnUpdateRestaurant(t)
    \/ \E t \in Txns : TxnCommit(t)

SpecTxn == Init /\ [][NextTxn]_vars

\* A page with a notification bell: the tables as in Init, and the hook the
\* bell calls
InitClient ==
    /\ posts = Posts
    /\ comments = {}
    /\ profiles = [u \in Users |-> NoProfile]
    /\ custNotifs = << >>
    /\ ownerNotifs = << >>
    /\ orders = {}
    /\ ratings = {}
    /\ restRating = [r \in Restaurants |-> AdminRating]
    /\ txns = [t \in Txns |-> IdleTxn]
    /\ delBase = [r \in Restaurants |-> NULL]
    /\ hook \in {[NoHook EXCEPT !.kind = kind] : kind \in HookKinds}
    /\ lastOp = NoOp

\* Rows arrive in the table the hook reads.  customer_notifications: the
\* order of a customer at restaurant 1 is served and completed, which prompts
\* the customer each time.  blog_comment_notifications: user 2 comments on
\* the posts.
NotificationsArrive ==
    \/ (hook.kind = "customer" /\ orders = {} /\ \E c \in Users : InsertOrder(c, 1))
    \/ (hook.kind = "customer" /\ \E i \in OrderIds, st \in {"served", "completed"} :
                                     UpdateOrderStatusUpTo(i, st, MaxClientRows))
    \/ (hook.kind = "owner" /\ profiles[2] = NoProfile /\ InsertProfile(2))
    \/ (hook.kind = "owner" /\ \E p \in Posts : InsertComment(p, 2, Rep(3), NULL))

\* A notification bell in a browser in which users sign in and out
NextClient ==
    \/ NotificationsArrive
    \/ \E u \in Users \cup {NULL} : Mount(u)
    \/ \E u \in Users \cup {NULL} : AuthChange(u)
    \/ \E k \in 1..MaxFetches, ok \in BOOLEAN : ResolveRestaurant(k, ok)
    \/ Unmount
    \/ \E k \in 1..MaxFetches, ok \in BOOLEAN : FetchAnswer(k, ok)
    \/ \E k \in 1..MaxFetches : FetchResolve(k)
    \/ \E k \in 1..Len(hook.channels), j \in 1..Len(TableOf(hook.kind)) :
          RealtimeInsert(k, j)

SpecClient == InitClient /\ [][NextClient]_vars

\* The notification bell of user 1, who reads the notifications
NextRead ==
    \/ NotificationsArrive
    \/ Mount(1)
    \/ \E k \in 1..MaxFetches, ok \in BOOLEAN : ResolveRestaurant(k, ok)
    \/ \E k \in 1..MaxFetches, ok \in BOOLEAN : FetchAnswer(k, ok)
    \/ \E k \in 1..MaxFetches : FetchResolve(k)
    \/ \E k \in 1..Len(hook.channels), j \in 1..Len(TableOf(hook.kind)) :
          RealtimeInsert(k, j)
    \/ \E i \in ListIds(hook.list), ok \in BOOLEAN : MarkAsRead(i, ok)
    \/ \E ok \in BOOLEAN : MarkAllAsRead(ok)

SpecRead == InitClient /\ [][NextRead]_vars

----------------------------------------------------------------------------
(* Properties *)

\* The notification rows the last statement created
CreatedCust == SubSeq(custNotifs, lastOp.custBefore + 1, Len(custNotifs))

CreatedOwner == SubSeq(ownerNotifs, lastOp.ownerBefore + 1, Len(ownerNotifs))

InsertedComment(c) ==
    /\ lastOp.op = "insert_comment" /\ lastOp.outcome = "ok"
    /\ c \in comments /\ c.id = lastOp.id

\* C1: an inserted reply whose parent comment exists, soft-deleted or not,
\* creates exactly one customer notification: for the parent's author,
\* unread, with no order, linked to the reply's post, and with the whole
\* reply text as reply_content.
C1_ReplyNotifiesParentAuthor ==
    \A R \in comments, P \in comments :
        (InsertedComment(R) /\ R.parent_comment_id # NULL /\ P.id = R.parent_comment_id)
        => /\ Len(CreatedCust) = 1
           /\ CreatedCust[1].customer_id = P.customer_id
           /\ CreatedCust[1].status = "unread"
           /\ CreatedCust[1].order_id = NULL
           /\ CreatedCust[1].blog_post_id = R.blog_post_id
           /\ CreatedCust[1].reply_content = Some(R.content)

\* A long reply to a soft-deleted comment has just been inserted
C1_Witness ==
    \E R \in comments, P \in comments :
        /\ InsertedComment(R) /\ P.id = R.parent_comment_id
        /\ P.is_deleted /\ Len(R.content) > PreviewLimit
        /\ Len(CreatedCust) = 1

\* C2: an inserted root comment C on a post of restaurant X creates exactly
\* one owner notification: restaurant X, comment C, C's author, C's post,
\* unread, and the whole comment text as comment_content.
C2_RootNotifiesOwner ==
    \A C \in comments :
        (InsertedComment(C) /\ C.parent_comment_id = NULL)
        => /\ Len(CreatedOwner) = 1
           /\ Cardinality({k \in 1..Len(ownerNotifs) : ownerNotifs[k].comment_id = C.id}) = 1
           /\ CreatedOwner[1].restaurant_id = PostRestaurant[C.blog_post_id]
           /\ CreatedOwner[1].comment_id = C.id
           /\ CreatedOwner[1].customer_id = C.customer_id
           /\ CreatedOwner[1].blog_post_id = C.blog_post_id
           /\ CreatedOwner[1].status = "unread"
           /\ CreatedOwner[1].comment_content = Some(C.content)

\* A long root comment on a post of restaurant 2 has just been inserted
C2_Witness ==
    \E C \in comments :
        /\ InsertedComment(C) /\ C.parent_comment_id = NULL
        /\ PostRestaurant[C.blog_post_id] = 2 /\ Len(C.content) > PreviewLimit
        /\ Len(CreatedOwner) = 1

OrderUpdated(O) ==
    /\ lastOp.op = "update_order"
    /\ O \in orders /\ O.id = lastOp.id

IntoCompletedOrServed(O) ==
    /\ OrderUpdated(O)
    /\ O.status \in {"completed", "served"}
    /\ lastOp.oldStatus # O.status

\* A rating row for (the order's restaurant, the order's customer, the order)
RatedOrder(O) ==
    \E t \in ratings : /\ t.restaurant_id = O.restaurant_id
                       /\ t.customer_id = O.customer_id
                       /\ t.order_id = O.id

OnePromptFor(O) ==
    /\ Len(CreatedCust) = 1
    /\ CreatedCust[1].customer_id = O.customer_id
    /\ CreatedCust[1].order_id = O.id
    /\ CreatedCust[1].status = "unread"
    /\ CreatedCust[1].title = RatingPromptTitle
    /\ CreatedCust[1].message = << RatingPromptMessage >>

\* C3 as stated: every update of an order's status into completed or served
\* from another status, with no rating row for the order, creates exactly one
\* unread rating prompt for the order's customer, linked to the order.
C3_PromptOnEveryTransition ==
    \A O \in orders :
        (IntoCompletedOrServed(O) /\ ~RatedOrder(O)) => OnePromptFor(O)

\* C3 amended: the same, for an order that has a customer and a restaurant.
C3_PromptOnTransition ==
    \A O \in orders :
        (/\ IntoCompletedOrServed(O) /\ ~RatedOrder(O)
         /\ O.customer_id # NULL /\ O.restaurant_id # NULL) => OnePromptFor(O)

\* An order of a customer went from paid to served while another order-less
\* rating of the restaurant existed
C3_Witness ==
    \E O \in orders :
        /\ IntoCompletedOrServed(O) /\ ~RatedOrder(O)
        /\ O.customer_id # NULL /\ O.restaurant_id # NULL
        /\ O.status = "served" /\ ratings # {}
        /\ OnePromptFor(O)

PromptsFor(O) ==
    {k \in 1..Len(custNotifs) :
        custNotifs[k].order_id = O.id /\ custNotifs[k].title = RatingPromptTitle}

\* C7: while an order has no rating, at most one rating prompt is ever
\* created for it, whatever the sequence of status updates.
C7_AtMostOnePrompt ==
    \A O \in orders : ~RatedOrder(O) => Cardinality(PromptsFor(O)) <= 1

\* C8: an order update creates no notification when the new status is the
\* old status, or when the new status is neither completed nor served.
C8_NoPromptWithoutTransition ==
    \A O \in orders :
        (OrderUpdated(O) /\ (O.status = lastOp.oldStatus
                             \/ O.status \notin {"completed", "served"}))
        => Len(CreatedCust) = 0

\* completed was written again on an unrated order of a customer
C8_Witness ==
    \E O \in orders :
        /\ OrderUpdated(O) /\ O.status = "completed" /\ lastOp.oldStatus = "completed"
        /\ O.customer_id # NULL /\ O.restaurant_id # NULL /\ ~RatedOrder(O)
        /\ Len(CreatedCust) = 0

\* C9: a status change into completed or served creates no rating prompt
\* when a rating row for (restaurant, customer, order) already exists.
C9_NoPromptWhenRated ==
    \A O \in orders :
        (IntoCompletedOrServed(O) /\ RatedOrder(O)) => Len(CreatedCust) = 0

\* A rated order has just become completed
C9_Witness ==
    \E O \in orders :
        /\ IntoCompletedOrServed(O) /\ RatedOrder(O) /\ O.status = "completed"
        /\ Len(CreatedCust) = 0

\* C6: when the notification insert of a comment trigger is rejected, the
\* comment row of the originating insert persists.
C6_CommentSurvivesRejection ==
    (lastOp.op = "insert_comment" /\ lastOp.outcome = "notification rejected")
    => \E c \in comments : c.id = lastOp.id

\* The mean of the rating rows, rounded half up to one decimal, in tenths
RoundedMean(rows) == RoundDiv(SumRatings(rows), Cardinality(rows))

\* C4: after any sequence of rating statements, a restaurant with at least
\* one rating row has the mean of its rows, rounded half up to one decimal.
C4_RatingIsRoundedMean ==
    \A x \in Restaurants :
        RowsOf(ratings, x) # {} => restRating[x] = RoundedMean(RowsOf(ratings, x))

\* C5: once every concurrent rating transaction has committed, a restaurant
\* with rating rows has the rounded mean of all its committed rows.
C5_ConvergesToMean ==
    (\A t \in Txns : ~Active(t))
    => \A x \in Restaurants :
           RowsOf(ratings, x) # {} => restRating[x] = RoundedMean(RowsOf(ratings, x))

\* C10 as stated: when all rating rows of a restaurant have been deleted, its
\* rating is the one it had before the deletions.
C10_DeletionsKeepRating ==
    \A x \in Restaurants :
        (RowsOf(ratings, x) = {} /\ delBase[x] # NULL) => restRating[x] = delBase[x]

\* C10 amended: a delete statement that removes every remaining rating row of
\* a restaurant leaves its rating as it was before that statement.
C10_LastDeleteKeepsRating ==
    [][\A x \in Restaurants :
          (/\ lastOp'.op = "delete_ratings"
           /\ RowsOf(ratings, x) # {} /\ RowsOf(ratings', x) = {})
          => restRating'[x] = restRating[x]]_vars

\* Ratings 3.0 and 5.0 of a restaurant rated 4.0 were deleted together
C10_Witness ==
    \E x \in Restaurants :
        /\ lastOp.op = "delete_ratings" /\ RowsOf(ratings, x) = {}
        /\ delBase[x] = 40 /\ restRating[x] = 40

\* C11: a statement that leaves a restaurant without any rating row leaves
\* the restaurant's rating as it was: the recalculation writes nothing, so
\* the rating is neither cleared nor reset, and a rating set by the
\* administrator stays until the first customer rating is inserted.
C11_NoRowsNoWrite ==
    [][\A x \in Restaurants :
          RowsOf(ratings', x) = {} => restRating'[x] = restRating[x]]_vars

\* The only rating of a restaurant rated 3.0 was reassigned to the other
\* restaurant: the recalculation of the first one found no row
C11_Witness ==
    \E x \in Restaurants :
        /\ lastOp.op = "update_rating" /\ x \in lastOp.touched
        /\ RowsOf(ratings, x) = {} /\ restRating[x] = 30

\* C12: when an update moves a rating row from restaurant A to restaurant B,
\* afterwards B's rating is the rounded mean of B's rows, the moved one
\* included, and A's rating is the rounded mean of A's remaining rows, or
\* unchanged when none remains.
C12_MoveRecomputesBoth ==
    [][\A t \in ratings', A \in Restaurants :
          (/\ lastOp'.op = "update_rating" /\ t.id = lastOp'.id
           /\ A \in lastOp'.touched /\ A # t.restaurant_id)
          => /\ restRating'[t.restaurant_id]
                    = RoundedMean(RowsOf(ratings', t.restaurant_id))
             /\ restRating'[A] = IF RowsOf(ratings', A) = {} THEN restRating[A]
                                 ELSE RoundedMean(RowsOf(ratings', A))]_vars

\* The quoted text in the message of a reply notification and of an owner
\* notification: the %s between the double quotes of the format string
ReplyQuote(n) == n.message[3]

OwnerQuote(n) == n.message[5]

Min(a, b) == IF a <= b THEN a ELSE b

\* C13 as stated: the message of the notification of an inserted reply R
\* contains the first min(100, len(R.content)) characters of R.content,
\* followed by an ellipsis if and only if R.content has more than 100
\* characters.
C13_MessageHasFirstHundred ==
    \A R \in comments :
        (InsertedComment(R) /\ R.parent_comment_id # NULL /\ Len(CreatedCust) = 1)
        => LET q == ReplyQuote(CreatedCust[1])
               n == Min(PreviewLimit, Len(R.content))
           IN /\ Len(q) >= n
              /\ SubSeq(q, 1, n) = SubSeq(R.content, 1, n)
              /\ (Len(R.content) > PreviewLimit)
                     <=> (SubSeq(q, n + 1, Len(q)) = Ellipsis)

\* C13 amended: the message quotes R.content in full when it has at most 100
\* characters, and otherwise its first 97 characters followed by an
\* ellipsis; the ellipsis is there if and only if R.content has more than
\* 100 characters.
C13_MessageHasPreview ==
    \A R \in comments :
        (InsertedComment(R) /\ R.parent_comment_id # NULL /\ Len(CreatedCust) = 1)
        => LET q == ReplyQuote(CreatedCust[1])
               n == IF Len(R.content) > PreviewLimit THEN PreviewKeep
                    ELSE Len(R.content)
           IN /\ Len(q) >= n
              /\ SubSeq(q, 1, n) = SubSeq(R.content, 1, n)
              /\ (Len(R.content) > PreviewLimit)
                     <=> (SubSeq(q, n + 1, Len(q)) = Ellipsis)
              /\ (Len(R.content) <= PreviewLimit) <=> (Len(q) = n)

\* A reply of 101 characters was inserted: its message quotes 97 of them
\* and ends with the ellipsis
C13_Witness ==
    \E R \in comments :
        /\ InsertedComment(R) /\ R.parent_comment_id # NULL
        /\ Len(R.content) = PreviewLimit + 1 /\ Len(CreatedCust) = 1
        /\ ReplyQuote(CreatedCust[1]) = SubSeq(R.content, 1, PreviewKeep) \o Ellipsis

\* The preview of a text: whole up to 100 characters, else 97 and "..."
IsPreviewOf(q, c) ==
    /\ Len(q) <= 100
    /\ Len(c) <= 100 => q = c
    /\ Len(c) > 100 => q = SubSeq(c, 1, 97) \o <<".", ".", ".">>

\* C14: the text quoted in the message of a notification created for an
\* inserted comment or reply never has more than 100 characters: it is the
\* content when that has at most 100 characters, else its first 97
\* characters and "..."; reply_content and comment_content keep the content
\* in full.
C14_PreviewAtMostHundred ==
    \A C \in comments :
        InsertedComment(C)
        => /\ \A k \in 1..Len(CreatedCust) :
                  /\ IsPreviewOf(ReplyQuote(CreatedCust[k]), C.content)
                  /\ CreatedCust[k].reply_content = Some(C.content)
           /\ \A k \in 1..Len(CreatedOwner) :
                  /\ IsPreviewOf(OwnerQuote(CreatedOwner[k]), C.content)
                  /\ CreatedOwner[k].comment_content = Some(C.content)

\* A reply of 101 characters to a comment of 100 characters: the quoted text
\* has 100 characters, reply_content has 101
C14_Witness ==
    \E R \in comments, P \in comments :
        /\ InsertedComment(R) /\ P.id = R.parent_comment_id
        /\ Len(P.content) = 100 /\ Len(R.content) = 101
        /\ Len(CreatedCust) = 1
        /\ Len(ReplyQuote(CreatedCust[1])) = 100
        /\ Len(CreatedCust[1].reply_content[1]) = 101

\* C15: no two owner notifications have the same comment id; an insert of an
\* owner notification for a comment that already has one is rejected and
\* leaves the notifications as they were.
C15_OneOwnerNotificationPerComment ==
    [][/\ \A j \in 1..Len(ownerNotifs'), k \in 1..Len(ownerNotifs') :
             ownerNotifs'[j].comment_id = ownerNotifs'[k].comment_id => j = k
       /\ (/\ lastOp'.op = "insert_owner_notification"
           /\ \E k \in 1..Len(ownerNotifs) : ownerNotifs[k].comment_id = lastOp'.id)
          => /\ lastOp'.outcome = "rejected"
             /\ ownerNotifs' = ownerNotifs]_vars

\* An owner notification for a comment that has one and whose author has a
\* profile was inserted by hand, and rejected
C15_Witness ==
    /\ lastOp.op = "insert_owner_notification" /\ lastOp.outcome = "rejected"
    /\ \E k \in 1..Len(ownerNotifs) : ownerNotifs[k].comment_id = lastOp.id
    /\ \A u \in Users : profiles[u] # NoProfile

\* C16: every reply is on the post of its parent comment, so the post a
\* reply notification links to is the one its recipient commented on.
C16_ReplyOnParentsPost ==
    \A R \in comments, P \in comments :
        P.id = R.parent_comment_id => R.blog_post_id = P.blog_post_id

\* C17 as stated: a comment row is never removed, whatever the operation.
C17_CommentNeverRemoved ==
    [][\A c \in comments : \E d \in comments' : d.id = c.id]_vars

\* C17 amended: a comment row is removed only by the deletion of a post,
\* which removes the comments on that post and, with each removed comment,
\* its replies; afterwards every comment is on an existing post and every
\* reply has its parent.  Every other statement keeps all comment rows, and
\* a soft delete only sets the flag.
C17_RemovedOnlyByCascade ==
    [][/\ \A c \in comments :
             (~ \E d \in comments' : d.id = c.id)
             => /\ lastOp'.op = "delete_post"
                /\ \/ c.blog_post_id = lastOp'.id /\ lastOp'.id \notin posts'
                   \/ /\ c.parent_comment_id # NULL
                      /\ ~ \E d \in comments' : d.id = c.parent_comment_id
       /\ \A d \in comments' :
             /\ d.blog_post_id \in posts'
             /\ d.parent_comment_id # NULL
                => \E e \in comments' : e.id = d.parent_comment_id
       /\ lastOp'.op = "soft_delete_comment"
          => {c.id : c \in comments'} = {c.id : c \in comments}]_vars

\* Post 1 was deleted and took two comments with it, one of them a reply
\* written under post 2
C17_Witness ==
    /\ lastOp.op = "delete_post" /\ lastOp.id = 1 /\ posts = {2}
    /\ Cardinality(lastOp.touched) = 2 /\ comments = {}
    /\ \E k \in 1..Len(custNotifs) : custNotifs[k].blog_post_id = 2

\* C18: no customer notification has both an order and a post; the
\* notification of a reply has a post and no order, a rating prompt has an
\* order and no post.
C18_OrderOrPost ==
    \A k \in 1..Len(custNotifs) :
        LET n == custNotifs[k]
        IN /\ ~(n.order_id # NULL /\ n.blog_post_id # NULL)
           /\ n.title = "Comment Reply" => (n.blog_post_id # NULL /\ n.order_id = NULL)
           /\ n.title = RatingPromptTitle
              => (n.order_id # NULL /\ n.blog_post_id = NULL)

\* A customer has the notification of a reply and a rating prompt, and the
\* backfill of blog_post_id has just been run
C18_Witness ==
    /\ lastOp.op = "backfill_blog_post_id"
    /\ \E j \in 1..Len(custNotifs), k \in 1..Len(custNotifs) :
           /\ custNotifs[j].title = "Comment Reply"
           /\ custNotifs[k].title = RatingPromptTitle
           /\ custNotifs[j].customer_id = custNotifs[k].customer_id

\* C19: no two rating rows have the same restaurant, customer and order,
\* an absent order included.
C19_UniqueTriples ==
    \A s \in ratings, t \in ratings :
        <<s.restaurant_id, s.customer_id, s.order_id>>
            = <<t.restaurant_id, t.customer_id, t.order_id>> => s.id = t.id

\* Rows the triggers could be handed: a comment row whose post or parent
\* comment may be missing from the tables
MissingId == MaxComments + 2

ConceivableComments ==
    [ id : {NextId(CommentIds)}, blog_post_id : Posts \cup {MissingId},
      customer_id : Users, content : {Rep(3)},
      parent_comment_id : {NULL, MissingId} \cup CommentIds, is_deleted : {FALSE} ]

RecipientRows ==
    SelectSeq(TableOf(hook.kind),
              LAMBDA n : ClientRow(hook.kind, n).recipient = KeyOf(hook))

\* C22: after markAllAsRead has completed successfully, every notification
\* of the recipient in the store is read, those outside the list included.
C22_MarkAllReadsEveryUnread ==
    (lastOp.op = "mark_all_as_read" /\ lastOp.outcome = "ok")
    => \A j \in 1..Len(RecipientRows) : RecipientRows[j].status = "read"

\* C23: the list of the hook never holds two entries with the same id, and
\* after a realtime insert it holds at most limit entries.
C23_NoDuplicateWithinLimit ==
    /\ \A a, b \in 1..Len(hook.list) : hook.list[a].id = hook.list[b].id => a = b
    /\ lastOp.op = "realtime_insert" => Len(hook.list) <= ClientLimit

\* A row that is already in the full list, behind a newer one, was delivered
\* again, while the recipient has more rows than the limit
C23_Witness ==
    /\ lastOp.op = "realtime_insert"
    /\ Len(hook.list) = ClientLimit
    /\ lastOp.id \in ListIds(hook.list)
    /\ hook.list[1].id # lastOp.id
    /\ Len(RecipientRows) > ClientLimit

\* C24: a mounted hook holds at most one channel, and that one is filtered
\* by the current user (customer hook) or restaurant (owner hook); a hook
\* that is not mounted holds none.
C24_OneScopedChannel ==
    /\ Len(hook.channels) <= 1
    /\ \A k \in 1..Len(hook.channels) :
          hook.mounted /\ hook.channels[k].key = KeyOf(hook)
    /\ (hook.mounted /\ KeyOf(hook) # NULL) => Len(hook.channels) = 1

\* Another user has signed in while the hook held the channel of the first
C24_Witness ==
    /\ lastOp.op = "auth_change"
    /\ lastOp.id # NULL
    /\ KeyOf(hook) \notin {NULL, lastOp.id}
    /\ Len(hook.channels) = 1
    /\ hook.channels[1].key = KeyOf(hook)

\* Root comments the owner trigger could be handed: the post, or the account
\* of the author, may be missing
ConceivableRoots ==
    [ id : {NextId(CommentIds)}, blog_post_id : Posts \cup {MissingId},
      customer_id : Users \cup {MissingId}, content : {Rep(3)},
      parent_comment_id : {NULL}, is_deleted : {FALSE} ]

\* The name the message is said to give the author of c
NamedCustomer(c) ==
    IF c.customer_id \in Users /\ profiles[c.customer_id] # NoProfile
                               /\ profiles[c.customer_id] # None
    THEN profiles[c.customer_id][1]
    ELSE IF c.customer_id \in Users THEN EmailLocalPart[c.customer_id]
    ELSE "A customer"

\* The message an owner notification is said to carry for the root comment c
NamedOwnerMessage(c) ==
    << NamedCustomer(c),
       " commented on your blog post \"",
       IF c.blog_post_id \in posts THEN PostTitle[c.blog_post_id] ELSE "a blog post",
       "\": \"",
       IF Len(c.content) > 100 THEN SubSeq(c.content, 1, 97) \o <<".", ".", ".">>
       ELSE c.content,
       "\"" >>

\* C25: the message of an owner notification reads
\* <customer> commented on your blog post "<title>": "<preview>", where the
\* customer is the stored full name, else the part of the e-mail before the
\* '@', else "A customer", and a title that is not found is "a blog post".
C25_OwnerMessageNaming ==
    /\ \A C \in comments :
          (InsertedComment(C) /\ C.parent_comment_id = NULL)
          => \A k \in 1..Len(CreatedOwner) : CreatedOwner[k].message = NamedOwnerMessage(C)
    /\ \A new \in ConceivableRoots : OwnerMessage(profiles, new) = NamedOwnerMessage(new)

\* A root comment of user 2, whose profile stores no full name, has created
\* a notification that names the author by the e-mail
C25_Witness ==
    \E C \in comments :
        /\ InsertedComment(C) /\ C.parent_comment_id = NULL
        /\ profiles[C.customer_id] = None
        /\ Len(CreatedOwner) = 1
        /\ CreatedOwner[1].message[1] = EmailLocalPart[C.customer_id]

\* C26: a reply whose author is not the owner of the restaurant of the post
\* creates no customer notification.
C26_OnlyOwnerReplyNotifies ==
    \A R \in comments :
        (/\ InsertedComment(R) /\ R.parent_comment_id # NULL
         /\ R.customer_id # RestaurantOwner[PostRestaurant[R.blog_post_id]])
        => Len(CreatedCust) = 0

\* C27: an inserted comment creates at most one notification row in the two
\* tables together: a reply creates no owner notification and a root comment
\* creates no customer notification.
C27_AtMostOneNotification ==
    \A C \in comments :
        InsertedComment(C)
        => /\ Len(CreatedCust) + Len(CreatedOwner) <= 1
           /\ C.parent_comment_id # NULL => Len(CreatedOwner) = 0
           /\ C.parent_comment_id = NULL => Len(CreatedCust) = 0

\* A reply to a root comment that had notified the owner has notified the
\* customer, and nobody else
C27_Witness ==
    \E R \in comments :
        /\ InsertedComment(R) /\ R.parent_comment_id # NULL
        /\ Len(CreatedCust) = 1 /\ Len(CreatedOwner) = 0
        /\ \E k \in 1..Len(ownerNotifs) : ownerNotifs[k].comment_id = R.parent_comment_id

\* The ids of the entries of the list that are addressed to the current key
OwnListIds ==
    {hook.list[a].id : a \in {b \in 1..Len(hook.list) : hook.list[b].recipient = KeyOf(hook)}}

\* C28: when the initial fetch of useCustomerNotifications resolves, with
\* data or with an error, the notifications of the user that the channel
\* had delivered before are still in the list, as long as the user has no
\* more notifications than the limit.
C28_DeliveredSurvivesFetch ==
    [][ (/\ lastOp'.op = "fetch_resolve"
         /\ hook.kind = "customer" /\ ~hook.initialFetched
         /\ Len(RecipientRows) <= ClientLimit)
        => OwnListIds \subseteq ListIds(hook'.list) ]_vars

\* C29: a notification that is read in the store stays read, and an entry
\* of the list that is read is not shown as unread by a later step.
C29_StatusMonotonic ==
    [][ /\ \A j \in 1..Len(custNotifs) :
              custNotifs[j].status = "read" => custNotifs'[j].status = "read"
        /\ \A j \in 1..Len(ownerNotifs) :
              ownerNotifs[j].status = "read" => ownerNotifs'[j].status = "read"
        /\ \A a \in 1..Len(hook.list), b \in 1..Len(hook'.list) :
              (hook.list[a].status = "read" /\ hook'.list[b].id = hook.list[a].id)
              => hook'.list[b].status = "read" ]_vars

\* C30: the list of a mounted useCustomerNotifications holds only
\* notifications whose customer_id is the signed-in user.
C30_ListOfCurrentUser ==
    (hook.mounted /\ hook.kind = "customer")
    => \A a \in 1..Len(hook.list) : hook.list[a].recipient = hook.user

====
